---- MODULE Spec2Model ----
(***************************************************************************)
(* Chirpy: the HTTP request-handling layer of src/main.go.                 *)
(*                                                                         *)
(* State: the apiConfig (platform tag, atomic hit counter), the users      *)
(* table behind cfg.db, the wall clock, and one record per in-flight       *)
(* request: where its goroutine stands (pc), the request it carries, the   *)
(* handler's locals and the response it has written.                       *)
(*                                                                         *)
(* Strings are sequences of characters; a character is a one-letter        *)
(* string, except KELVIN, which stands for U+212A (KELVIN SIGN), a         *)
(* three-byte rune whose Go lower case is the ASCII letter k.              *)
(***************************************************************************)
EXTENDS Integers, Sequences, FiniteSets, TLC

VARIABLES
    platform,        \* apiConfig.platform (main.go:21)
    fileserverHits,  \* apiConfig.fileserverHits, an atomic.Int32 (main.go:19)
    users,           \* the rows of the users table behind apiConfig.db (main.go:181, 211)
    clock,           \* what time.Now() returns (main.go:207)
    pc,              \* per request: the handler its goroutine is in, "idle" before, "done" after
    req,             \* per request: method, path and body
    newUser,         \* per request: createUserHandler's newUser (main.go:204)
    resp             \* per request: what the handler wrote to its ResponseWriter

vars == <<platform, fileserverHits, users, clock, pc, req, newUser, resp>>

----------------------------------------------------------------------------
(* Bounds of the model *)

\* number of requests in flight over one behaviour
MaxReqs == 3
\* number of clock ticks over one behaviour
MaxClock == 1
\* number of space-separated tokens in a generated chirp body
MaxTokens == 3
\* how far around maxChirpLength the generated long bodies reach
Slack == 2

----------------------------------------------------------------------------
(* Program constants *)

maxChirpLength == 140

MaxInt32 == 2147483647

MinInt32 == (-2147483647) - 1

StatusOK == 200
StatusCreated == 201
StatusBadRequest == 400
StatusForbidden == 403
StatusNotFound == 404
StatusMethodNotAllowed == 405
StatusInternalServerError == 500

JSON == "application/json"
TextPlain == "text/plain; charset=utf-8"
TextHTML == "text/html; charset=utf-8"

Mask == <<"*", "*", "*", "*">>

forbiddenWords ==
    << <<"k", "e", "r", "f", "u", "f", "f", "l", "e">>,
       <<"s", "h", "a", "r", "b", "e", "r", "t">>,
       <<"f", "o", "r", "n", "a", "x">> >>

----------------------------------------------------------------------------
(* strings: ToLower, Split, Join, len *)

UpperLetters ==
    <<"A", "B", "C", "D", "E", "F", "G", "H", "I", "J", "K", "L", "M",
      "N", "O", "P", "Q", "R", "S", "T", "U", "V", "W", "X", "Y", "Z">>

LowerLetters ==
    <<"a", "b", "c", "d", "e", "f", "g", "h", "i", "j", "k", "l", "m",
      "n", "o", "p", "q", "r", "s", "t", "u", "v", "w", "x", "y", "z">>

\* unicode.ToLower of one rune
ToLowerRune(c) ==
    IF \E i \in 1..Len(UpperLetters) : UpperLetters[i] = c
    THEN LowerLetters[CHOOSE i \in 1..Len(UpperLetters) : UpperLetters[i] = c]
    ELSE IF c = "KELVIN" THEN "k" ELSE c

\* strings.ToLower
ToLower(s) == [i \in 1..Len(s) |-> ToLowerRune(s[i])]

\* the UTF-8 width of one rune
RuneLen(c) == IF c = "KELVIN" THEN 3 ELSE 1

RECURSIVE ByteLen(_)
\* len(s) of a Go string: its length in bytes
ByteLen(s) ==
    IF Len(s) = 0 THEN 0
    ELSE IF Len(s) = 1 THEN RuneLen(s[1])
    ELSE LET half == Len(s) \div 2
         IN  ByteLen(SubSeq(s, 1, half)) + ByteLen(SubSeq(s, half + 1, Len(s)))

\* strings.Split(s, " "): one token more than there are spaces, cut at each space in
\* turn; purely positional, the empty string gives one empty token
Split(s) ==
    LET spaces == {i \in 1..Len(s) : s[i] = " "}
        n == Cardinality(spaces) + 1
        \* where the k-th space is, the two ends of s counting as the 0th and the n-th
        cut(k) ==
            IF k = 0 THEN 0
            ELSE IF k = n THEN Len(s) + 1
            ELSE CHOOSE i \in spaces : Cardinality({j \in spaces : j < i}) = k - 1
    IN  [k \in 1..n |-> SubSeq(s, cut(k - 1) + 1, cut(k) - 1)]

RECURSIVE Join(_)
\* strings.Join(toks, " ")
Join(toks) ==
    IF Len(toks) = 0 THEN <<>>
    ELSE IF Len(toks) = 1 THEN toks[1]
    ELSE toks[1] \o <<" ">> \o Join(Tail(toks))

----------------------------------------------------------------------------
(* censorText *)

\* the inner loop of censorText: the replacement of one token
CensorWord(word, words) ==
    IF \E j \in 1..Len(words) : ToLower(word) = words[j] THEN Mask ELSE word

\* censorText with the inner break leaving the outer loop too: only the first
\* forbidden token of the text is masked
CensorFirstOnly(text, words) ==
    LET toks == Split(text)
        hit(i) == \E j \in 1..Len(words) : ToLower(toks[i]) = words[j]
    IN  Join([i \in 1..Len(toks) |->
                IF hit(i) /\ \A k \in 1..(i - 1) : ~hit(k) THEN Mask ELSE toks[i]])

\* censorText matching a forbidden word as a prefix of the token
CensorPrefix(text, words) ==
    LET toks == Split(text)
        pre(w, t) == Len(t) >= Len(w) /\ SubSeq(ToLower(t), 1, Len(w)) = w
    IN  Join([i \in 1..Len(toks) |->
                IF \E j \in 1..Len(words) : pre(words[j], toks[i])
                THEN Mask ELSE toks[i]])

censorText(text, words) ==
    LET wordsInText == Split(text)
    IN  Join([i \in 1..Len(wordsInText) |-> CensorWord(wordsInText[i], words)])

----------------------------------------------------------------------------
(* requests, payloads and responses *)

Reqs == 1..MaxReqs

Methods == {"GET", "POST"}

\* request paths, as their segments: "/app/" is <<"app", "">>
Healthz == <<"api", "healthz">>
AppRoot == <<"app", "">>
AppLogo == <<"app", "assets", "logo.png">>
Logo == <<"assets", "logo.png">>
Metrics == <<"admin", "metrics">>
Reset == <<"admin", "reset">>
ValidateChirp == <<"api", "validate_chirp">>
Users == <<"api", "users">>
Elsewhere == <<"nope">>

Paths == {Healthz, AppRoot, AppLogo, Logo, Metrics, Reset, ValidateChirp, Users, Elsewhere}

\* a request body: malformed JSON, an object whose field has the wrong JSON type,
\* or an object whose field (body, email) is the string value ("" when absent)
Payload(json, value) == [json |-> json, value |-> value]

NoPayload == Payload("none", <<>>)

\* json.NewDecoder(r.Body).Decode(&req)
Decode(p) ==
    [err |-> p.json # "object", value |-> IF p.json = "object" THEN p.value ELSE <<>>]

NoUser == [id |-> 0, email |-> <<>>, created_at |-> 0, updated_at |-> 0]

NoReq == [method |-> "", path |-> <<>>, payload |-> NoPayload]

NoResp ==
    [status |-> 0, ctype |-> "", fmt |-> "", error |-> "", cleaned |-> <<>>,
     user |-> NoUser, count |-> 0]

\* what reaches the client: the status passed to WriteHeader, the Content-Type the
\* handler had set in w.Header() by then ("" when it set none), and the body written
Respond(ctype, status, fmt) == [NoResp EXCEPT !.status = status, !.ctype = ctype, !.fmt = fmt]

\* json of errorResponse{Error: msg}
ErrorBody(ctype, status, msg) == [Respond(ctype, status, "json") EXCEPT !.error = msg]

----------------------------------------------------------------------------
(* http.ServeMux: the patterns registered in main *)

\* the handler of a path whatever the method, "" when no pattern matches it
PathHandler(path) ==
    IF path = Healthz THEN "readinessHandler"
    ELSE IF Len(path) >= 2 /\ path[1] = "app" THEN "middlewareMetricsInc"
    ELSE IF path = Metrics THEN "metricsHandler"
    ELSE IF path = Reset THEN "resetHandler"
    ELSE IF path = Logo THEN "fileServer"
    ELSE IF path = ValidateChirp THEN "chirpValidateHandler"
    ELSE IF path = Users THEN "createUserHandler"
    ELSE ""

\* the method a pattern names, "" when it names none
PatternMethod(handler) ==
    IF handler \in {"readinessHandler", "metricsHandler"} THEN "GET"
    ELSE IF handler \in {"resetHandler", "chirpValidateHandler", "createUserHandler"} THEN "POST"
    ELSE ""

Route(method, path) ==
    LET h == PathHandler(path)
    IN  IF h = "" THEN "notFound"
        ELSE IF PatternMethod(h) \notin {"", method} THEN "methodNotAllowed"
        ELSE h

----------------------------------------------------------------------------
(* atomic.Int32 *)

\* Int32.Add: two's complement, wrapping at MaxInt32
Add32(v, d) == IF v > MaxInt32 - d THEN MinInt32 + (d - 1 - (MaxInt32 - v)) ELSE v + d

----------------------------------------------------------------------------
(* the state after main has built the apiConfig and the mux *)

\* values of the PLATFORM environment variable, "" when it is not set
Envs == {"", "dev", "staging"}

\* main: platform defaults to "prod" when PLATFORM is not set
PlatformOf(env) == IF env = "" THEN "prod" ELSE env

Init ==
    /\ platform \in {PlatformOf(e) : e \in Envs}
    /\ fileserverHits = 0
    /\ users = {}
    /\ clock = 0
    /\ pc = [r \in Reqs |-> "idle"]
    /\ req = [r \in Reqs |-> NoReq]
    /\ newUser = [r \in Reqs |-> NoUser]
    /\ resp = [r \in Reqs |-> NoResp]

\* the handler the mux gave request r to
Handler(r) == Route(req[r].method, req[r].path)

----------------------------------------------------------------------------
(* the server accepts a request and the mux dispatches it; requests are numbered
   in their order of arrival *)

Arrive(r, method, path, payload) ==
    /\ pc[r] = "idle"
    /\ IF r = 1 THEN TRUE ELSE pc[r - 1] # "idle"
    /\ req' = [req EXCEPT ![r] = [method |-> method, path |-> path, payload |-> payload]]
    /\ pc' = [pc EXCEPT ![r] = Route(method, path)]
    /\ UNCHANGED <<platform, fileserverHits, users, clock, newUser, resp>>

\* the mux's own answers
notFound(r) ==
    /\ pc[r] = "notFound"
    /\ resp' = [resp EXCEPT ![r] = Respond(TextPlain, StatusNotFound, "text")]
    /\ pc' = [pc EXCEPT ![r] = "done"]
    /\ UNCHANGED <<platform, fileserverHits, users, clock, req, newUser>>

methodNotAllowed(r) ==
    /\ pc[r] = "methodNotAllowed"
    /\ resp' = [resp EXCEPT ![r] = Respond(TextPlain, StatusMethodNotAllowed, "text")]
    /\ pc' = [pc EXCEPT ![r] = "done"]
    /\ UNCHANGED <<platform, fileserverHits, users, clock, req, newUser>>

readinessHandler(r) ==
    /\ pc[r] = "readinessHandler"
    /\ resp' = [resp EXCEPT ![r] = Respond(TextPlain, StatusOK, "text")]
    /\ pc' = [pc EXCEPT ![r] = "done"]
    /\ UNCHANGED <<platform, fileserverHits, users, clock, req, newUser>>

----------------------------------------------------------------------------
(* the hit counter *)

\* the middleware with Load and Store in place of the atomic Add: the value loaded
\* waits in the request's response record until the second step stores it
middlewareLoadThenStore(r) ==
    /\ pc[r] = "middlewareMetricsInc"
    /\ IF resp[r].fmt = ""
       THEN /\ resp' = [resp EXCEPT ![r] = [NoResp EXCEPT !.fmt = "loaded", !.count = fileserverHits]]
            /\ UNCHANGED <<fileserverHits, pc>>
       ELSE /\ fileserverHits' = Add32(resp[r].count, 1)
            /\ resp' = [resp EXCEPT ![r] = NoResp]
            /\ pc' = [pc EXCEPT ![r] = "fileServer"]
    /\ UNCHANGED <<platform, users, clock, req, newUser>>

\* cfg.fileserverHits.Add(1), then next.ServeHTTP
middlewareMetricsInc(r) ==
    /\ pc[r] = "middlewareMetricsInc"
    /\ fileserverHits' = Add32(fileserverHits, 1)
    /\ pc' = [pc EXCEPT ![r] = "fileServer"]
    /\ UNCHANGED <<platform, users, clock, req, newUser, resp>>

\* http.FileServer: the file is served with the type of its extension
fileServer(r) ==
    /\ pc[r] = "fileServer"
    /\ resp' = [resp EXCEPT ![r] = Respond("file", StatusOK, "file")]
    /\ pc' = [pc EXCEPT ![r] = "done"]
    /\ UNCHANGED <<platform, fileserverHits, users, clock, req, newUser>>

metricsHandler(r) ==
    /\ pc[r] = "metricsHandler"
    /\ LET count == fileserverHits
       IN  resp' = [resp EXCEPT ![r] = [Respond(TextHTML, StatusOK, "html") EXCEPT !.count = count]]
    /\ pc' = [pc EXCEPT ![r] = "done"]
    /\ UNCHANGED <<platform, fileserverHits, users, clock, req, newUser>>

----------------------------------------------------------------------------
(* admin reset *)

\* resetHandler storing zero before it looks at the platform
resetHandlerStoreFirst(r) ==
    /\ pc[r] = "resetHandler"
    /\ fileserverHits' = 0
    /\ IF platform # "dev"
       THEN /\ resp' = [resp EXCEPT ![r] = ErrorBody("", StatusForbidden, "Forbidden")]
            /\ pc' = [pc EXCEPT ![r] = "done"]
       ELSE /\ pc' = [pc EXCEPT ![r] = "resetExec"]
            /\ UNCHANGED resp
    /\ UNCHANGED <<platform, users, clock, req, newUser>>

\* resetHandler without the Store(0)
resetHandlerNoStore(r) ==
    /\ pc[r] = "resetHandler"
    /\ IF platform # "dev"
       THEN /\ resp' = [resp EXCEPT ![r] = ErrorBody("", StatusForbidden, "Forbidden")]
            /\ pc' = [pc EXCEPT ![r] = "done"]
       ELSE /\ pc' = [pc EXCEPT ![r] = "resetExec"]
            /\ UNCHANGED resp
    /\ UNCHANGED <<platform, fileserverHits, users, clock, req, newUser>>

\* the platform gate, then cfg.fileserverHits.Store(0); no Content-Type is set
resetHandler(r) ==
    /\ pc[r] = "resetHandler"
    /\ IF platform # "dev"
       THEN /\ resp' = [resp EXCEPT ![r] = ErrorBody("", StatusForbidden, "Forbidden")]
            /\ pc' = [pc EXCEPT ![r] = "done"]
            /\ UNCHANGED fileserverHits
       ELSE /\ fileserverHits' = 0
            /\ pc' = [pc EXCEPT ![r] = "resetExec"]
            /\ UNCHANGED resp
    /\ UNCHANGED <<platform, users, clock, req, newUser>>

\* cfg.db.Exec("DELETE FROM users"): the statement deletes every row or fails and
\* deletes none
resetExec(r) ==
    /\ pc[r] = "resetExec"
    /\ \E err \in BOOLEAN :
         IF err
         THEN /\ resp' = [resp EXCEPT ![r] =
                            ErrorBody("", StatusInternalServerError, "Failed to reset users")]
              /\ UNCHANGED users
         ELSE /\ users' = {}
              /\ resp' = [resp EXCEPT ![r] = Respond("", StatusOK, "text")]
    /\ pc' = [pc EXCEPT ![r] = "done"]
    /\ UNCHANGED <<platform, fileserverHits, clock, req, newUser>>

----------------------------------------------------------------------------
(* chirp validation *)

\* the validator rejecting a body of exactly maxChirpLength bytes too
chirpResponseAtLimit(p) ==
    LET d == Decode(p)
    IN  IF d.err THEN ErrorBody(JSON, StatusBadRequest, "Invalid request body")
        ELSE IF ByteLen(d.value) >= maxChirpLength
        THEN ErrorBody(JSON, StatusBadRequest, "Chirp is too long")
        ELSE [Respond(JSON, StatusOK, "json") EXCEPT
                 !.cleaned = censorText(d.value, forbiddenWords)]

\* the response chirpValidateHandler writes for the payload p
chirpResponse(p) ==
    LET d == Decode(p)
    IN  IF d.err THEN ErrorBody(JSON, StatusBadRequest, "Invalid request body")
        ELSE IF ByteLen(d.value) > maxChirpLength
        THEN ErrorBody(JSON, StatusBadRequest, "Chirp is too long")
        ELSE [Respond(JSON, StatusOK, "json") EXCEPT
                 !.cleaned = censorText(d.value, forbiddenWords)]

chirpValidateHandler(r) ==
    /\ pc[r] = "chirpValidateHandler"
    /\ resp' = [resp EXCEPT ![r] = chirpResponse(req[r].payload)]
    /\ pc' = [pc EXCEPT ![r] = "done"]
    /\ UNCHANGED <<platform, fileserverHits, users, clock, req, newUser>>

----------------------------------------------------------------------------
(* user creation *)

\* time passes: time.Now() returns the clock
Tick ==
    /\ clock < MaxClock
    /\ clock' = clock + 1
    /\ UNCHANGED <<platform, fileserverHits, users, pc, req, newUser, resp>>

\* uuid.New(): an id no other request draws, here the number of the request
NewUUID(r) == r

\* decode, then the first fields of the user literal: uuid.New() and the first
\* time.Now()
createUserHandler(r) ==
    /\ pc[r] = "createUserHandler"
    /\ LET d == Decode(req[r].payload)
       IN  IF d.err
           THEN /\ resp' = [resp EXCEPT ![r] =
                              ErrorBody(JSON, StatusBadRequest, "Invalid request body")]
                /\ pc' = [pc EXCEPT ![r] = "done"]
                /\ UNCHANGED newUser
           ELSE /\ newUser' = [newUser EXCEPT ![r] =
                                 [id |-> NewUUID(r), email |-> d.value,
                                  created_at |-> clock, updated_at |-> 0]]
                /\ pc' = [pc EXCEPT ![r] = "createUserInsert"]
                /\ UNCHANGED resp
    /\ UNCHANGED <<platform, fileserverHits, users, clock, req>>

\* the second time.Now() of the literal, then the INSERT and the response; the
\* handler returns and its newUser is gone
createUserInsert(r) ==
    /\ pc[r] = "createUserInsert"
    /\ LET u == [newUser[r] EXCEPT !.updated_at = clock]
       IN  \E err \in BOOLEAN :
             IF err
             THEN /\ resp' = [resp EXCEPT ![r] =
                                ErrorBody(JSON, StatusInternalServerError, "Failed to create user")]
                  /\ UNCHANGED users
             ELSE /\ users' = users \cup {u}
                  /\ resp' = [resp EXCEPT ![r] =
                                [Respond(JSON, StatusCreated, "json") EXCEPT !.user = u]]
    /\ newUser' = [newUser EXCEPT ![r] = NoUser]
    /\ pc' = [pc EXCEPT ![r] = "done"]
    /\ UNCHANGED <<platform, fileserverHits, clock, req>>

----------------------------------------------------------------------------
(* the request bodies clients send *)

Str_kerfuffle == forbiddenWords[1]
Str_email == <<"a", "@", "b">>

Malformed == Payload("malformed", <<>>)
Mistyped == Payload("mistyped", <<>>)

Request(method, path, payload) == [method |-> method, path |-> path, payload |-> payload]

\* the requests of the counter, the metrics page, the reset and the user creation
CounterTraffic ==
    { Request("GET", AppRoot, NoPayload),
      Request("GET", Metrics, NoPayload),
      Request("POST", Reset, NoPayload),
      Request("POST", Users, Payload("object", Str_email)) }

\* requests to every route, by either method, with a body of each kind
Traffic ==
    CounterTraffic \cup
    { Request("GET", Healthz, NoPayload),
      Request("POST", AppLogo, NoPayload),
      Request("GET", Logo, NoPayload),
      Request("POST", Metrics, NoPayload),
      Request("POST", ValidateChirp, Malformed),
      Request("POST", ValidateChirp, Payload("object", Str_kerfuffle \o <<" ", "a">>)),
      Request("POST", Users, Malformed),
      Request("GET", Elsewhere, NoPayload) }

\* the tokens the generated chirp bodies are made of
Vocabulary ==
    { Str_kerfuffle,
      <<"K">> \o Tail(Str_kerfuffle),
      <<"KELVIN">> \o Tail(Str_kerfuffle),
      Str_kerfuffle \o <<"!">>,
      forbiddenWords[2],
      <<"F", "O", "R", "N", "A", "X">>,
      forbiddenWords[3] \o <<"e", "s">>,
      <<>>,
      Mask }

RECURSIVE TokenSeqs(_)
\* the sequences of 1..n tokens
TokenSeqs(n) ==
    IF n = 0 THEN {}
    ELSE LET shorter == TokenSeqs(n - 1)
         IN  {<<t>> : t \in Vocabulary} \cup shorter
               \cup {Append(ts, t) : ts \in shorter, t \in Vocabulary}

\* n times the letter a
Pad(n) == [i \in 1..n |-> "a"]

\* bodies whose length is around maxChirpLength: plain, starting with a forbidden
\* word, and starting with a three-byte rune
LongBodies ==
    LET lens == (maxChirpLength - Slack)..(maxChirpLength + Slack)
    IN  {Pad(n) : n \in lens}
          \cup {Str_kerfuffle \o <<" ">> \o Pad(n - 10) : n \in lens}
          \cup {<<"KELVIN">> \o Pad(n - 1) : n \in lens}

ChirpPayloads ==
    {Malformed, Mistyped}
      \cup {Payload("object", Join(ts)) : ts \in TokenSeqs(MaxTokens)}
      \cup {Payload("object", b) : b \in LongBodies}

----------------------------------------------------------------------------
(* specifications *)

Step(r) ==
    \/ notFound(r)
    \/ methodNotAllowed(r)
    \/ readinessHandler(r)
    \/ middlewareMetricsInc(r)
    \/ fileServer(r)
    \/ metricsHandler(r)
    \/ resetHandler(r)
    \/ resetExec(r)
    \/ chirpValidateHandler(r)
    \/ createUserHandler(r)
    \/ createUserInsert(r)

Next ==
    \/ \E r \in Reqs, q \in Traffic : Arrive(r, q.method, q.path, q.payload)
    \/ \E r \in Reqs : Step(r)
    \/ Tick

\* the server, idle, right after start, under requests to every route
Spec == Init /\ [][Next]_vars

StepCounter(r) ==
    \/ middlewareMetricsInc(r)
    \/ fileServer(r)
    \/ metricsHandler(r)
    \/ resetHandler(r)
    \/ resetExec(r)
    \/ createUserHandler(r)
    \/ createUserInsert(r)

NextCounter ==
    \/ \E r \in Reqs, q \in CounterTraffic : Arrive(r, q.method, q.path, q.payload)
    \/ \E r \in Reqs : StepCounter(r)

\* the same server under the requests that read or write the counter and the users,
\* over a stretch of time in which the clock does not advance
SpecCounter == Init /\ [][NextCounter]_vars

\* the validator alone: one request to POST /api/validate_chirp with any generated body
NextChirp ==
    \/ \E b \in ChirpPayloads : Arrive(1, "POST", ValidateChirp, b)
    \/ chirpValidateHandler(1)

\* the server started with PLATFORM not set
InitChirp == Init /\ platform = PlatformOf("")

SpecChirp == InitChirp /\ [][NextChirp]_vars

\* the server after MaxInt32 - 1 static requests have been counted since the last reset
InitLate ==
    /\ platform \in {PlatformOf(e) : e \in Envs}
    /\ fileserverHits = MaxInt32 - 1
    /\ users = {}
    /\ clock = 0
    /\ pc = [r \in Reqs |-> "idle"]
    /\ req = [r \in Reqs |-> NoReq]
    /\ newUser = [r \in Reqs |-> NoUser]
    /\ resp = [r \in Reqs |-> NoResp]

SpecLate == InitLate /\ [][NextCounter]_vars

----------------------------------------------------------------------------
(* properties *)

\* the requests that have passed the counting middleware
Passed ==
    {r \in Reqs : Handler(r) = "middlewareMetricsInc" /\ pc[r] \in {"fileServer", "done"}}

\* the reset request r has stored zero
Stored(r) ==
    /\ Handler(r) = "resetHandler"
    /\ pc[r] = "resetExec" \/ (pc[r] = "done" /\ resp[r].status # StatusForbidden)

NoResetYet == \A r \in Reqs : ~Stored(r)

\* request r takes the step that leaves the program point at
Leaves(r, at) == pc[r] = at /\ pc'[r] # at

\* C1: starting from zero and with no reset, after every step the counter is the
\* number of requests that have passed the middleware, in whatever order they were
\* interleaved, and every read of the metrics handler returns that number.
C1_NoLostIncrement ==
    [][NoResetYet' =>
          /\ fileserverHits' = Cardinality(Passed')
          /\ \A r \in Reqs :
               Leaves(r, "metricsHandler") => resp'[r].count = Cardinality(Passed)]_vars

\* C1 witness: two static requests have passed the middleware and a metrics request
\* has read 2.
C1_Witness ==
    /\ NoResetYet
    /\ Cardinality(Passed) = 2
    /\ \E r \in Reqs :
         Handler(r) = "metricsHandler" /\ pc[r] = "done" /\ resp[r].count = 2

\* C2: on a platform other than "dev" the step of the reset handler answers 403 and
\* changes neither the counter nor the users, and no reset request gets past the
\* gate to the store and the deletion.
C2_GateBeforeMutation ==
    [][\A r \in Reqs :
          /\ (platform # "dev" /\ Leaves(r, "resetHandler")) =>
                /\ pc'[r] = "done"
                /\ resp'[r].status = StatusForbidden
                /\ fileserverHits' = fileserverHits
                /\ users' = users
          /\ Stored(r)' => platform = "dev"]_vars

\* C2 witness: a reset was refused while the counter was not zero and a user existed.
C2_Witness ==
    \E r \in Reqs :
       /\ Handler(r) = "resetHandler" /\ pc[r] = "done"
       /\ resp[r].status = StatusForbidden
       /\ platform = "prod"
       /\ fileserverHits > 0
       /\ users # {}

Accepted(r) ==
    Handler(r) = "chirpValidateHandler" /\ pc[r] = "done" /\ resp[r].status = StatusOK

\* C3: the validator answers with exactly one of three outcomes, decided in order:
\* 400 "Invalid request body" when the payload does not decode, else 400 "Chirp is
\* too long" when the body is longer than 140, else 200 with the censored body; a
\* body of length 140 is accepted and one of length 141 is rejected as too long.
C3_ThreeOutcomes ==
    \A r \in Reqs :
       (Handler(r) = "chirpValidateHandler" /\ pc[r] = "done") =>
          LET p == req[r].payload
              out == resp[r]
              undecodable == p.json # "object"
              len == ByteLen(p.value)
              invalid ==
                  /\ out.status = StatusBadRequest
                  /\ out.error = "Invalid request body"
                  /\ out.cleaned = <<>>
              tooLong ==
                  /\ out.status = StatusBadRequest
                  /\ out.error = "Chirp is too long"
                  /\ out.cleaned = <<>>
              accepted ==
                  /\ out.status = StatusOK
                  /\ out.error = ""
                  /\ out.cleaned = censorText(p.value, forbiddenWords)
          IN  /\ Cardinality({o \in {"invalid", "tooLong", "accepted"} :
                                \/ o = "invalid" /\ invalid
                                \/ o = "tooLong" /\ tooLong
                                \/ o = "accepted" /\ accepted}) = 1
              /\ undecodable => invalid
              /\ (~undecodable /\ len > 140) => tooLong
              /\ (~undecodable /\ len <= 140) => accepted
              /\ (~undecodable /\ len = 140) => out.status = StatusOK
              /\ (~undecodable /\ len = 141) => tooLong

\* C3 witness: a body of exactly 140 bytes that starts with a forbidden word was
\* accepted and came back censored.
C3_Witness ==
    \E r \in Reqs :
       /\ Accepted(r)
       /\ ByteLen(req[r].payload.value) = 140
       /\ SubSeq(req[r].payload.value, 1, 9) = Str_kerfuffle
       /\ SubSeq(resp[r].cleaned, 1, 4) = Mask

\* the forbidden words as a set
Forbidden == {forbiddenWords[j] : j \in 1..Len(forbiddenWords)}

\* C4: token by token, the censored text has "****" where the lower case of the
\* input token is a forbidden word and the input token itself everywhere else
\* (empty tokens, punctuated and longer words included); as many tokens, in the
\* same order.
C4_WholeTokenMatch ==
    \A r \in Reqs :
       Accepted(r) =>
          LET toks == Split(req[r].payload.value)
              out == Split(resp[r].cleaned)
          IN  /\ Len(out) = Len(toks)
              /\ \A i \in 1..Len(toks) :
                   out[i] = IF ToLower(toks[i]) \in Forbidden THEN Mask ELSE toks[i]

\* C4 witness: a text with a capitalised forbidden word (masked), a punctuated one
\* (kept) and an empty token (kept).
C4_Witness ==
    \E r \in Reqs :
       /\ Accepted(r)
       /\ LET toks == Split(req[r].payload.value)
              out == Split(resp[r].cleaned)
          IN  /\ Len(toks) = 3
              /\ toks[1] = <<"K">> \o Tail(Str_kerfuffle) /\ out[1] = Mask
              /\ toks[2] = <<>> /\ out[2] = <<>>
              /\ toks[3] = Str_kerfuffle \o <<"!">> /\ out[3] = toks[3]

\* C5: censoring a censored text changes nothing.
C5_Idempotent ==
    \A r \in Reqs :
       Accepted(r) => censorText(resp[r].cleaned, forbiddenWords) = resp[r].cleaned

\* C5 witness: a text of two forbidden words came back as two masks.
C5_Witness ==
    \E r \in Reqs :
       /\ Accepted(r)
       /\ req[r].payload.value = Str_kerfuffle \o <<" ">> \o forbiddenWords[2]
       /\ resp[r].cleaned = Mask \o <<" ">> \o Mask

\* the requests that have reached the static file server
Served ==
    {r \in Reqs : pc[r] = "fileServer" \/ (pc[r] = "done" /\ resp[r].fmt = "file")}

\* C6: every request that reaches the static file server, by whichever route, has
\* added one to the counter and nothing else has: with no reset, the counter is the
\* number of requests that reached the file server.
C6_EveryStaticRequestCounted ==
    NoResetYet => fileserverHits = Cardinality(Served)

\* C7: every created user has created_at equal to updated_at, in the stored row and
\* in the 201 body.
C7_EqualTimestamps ==
    /\ \A u \in users : u.created_at = u.updated_at
    /\ \A r \in Reqs :
         resp[r].status = StatusCreated => resp[r].user.created_at = resp[r].user.updated_at

\* C8: every 400, 403 or 500 of the validate_chirp, create-user and admin-reset
\* handlers is a JSON object with an error field, written after the Content-Type
\* was set to JSON.
C8_JsonErrors ==
    \A r \in Reqs :
       (/\ pc[r] = "done"
        /\ Handler(r) \in {"chirpValidateHandler", "createUserHandler", "resetHandler"}
        /\ resp[r].status \in {StatusBadRequest, StatusForbidden, StatusInternalServerError})
       => /\ resp[r].fmt = "json"
          /\ resp[r].error # ""
          /\ resp[r].ctype = JSON

\* C9: on "dev" the reset handler's first step stores zero and touches no user, and
\* only then comes the deletion; the deletion's step leaves the counter alone and
\* answers 500 with the users as they were or 200 with no user left; from the store
\* on a counter at zero stays at zero through every step that is not an increment.
C9_ResetThenDelete ==
    [][\A r \in Reqs :
          /\ (platform = "dev" /\ Leaves(r, "resetHandler")) =>
                /\ pc'[r] = "resetExec"
                /\ fileserverHits' = 0
                /\ users' = users
          /\ (pc[r] # "resetExec" /\ pc'[r] = "resetExec") => pc[r] = "resetHandler"
          /\ Leaves(r, "resetExec") =>
                /\ pc'[r] = "done"
                /\ fileserverHits' = fileserverHits
                /\ \/ resp'[r].status = StatusInternalServerError /\ users' = users
                   \/ resp'[r].status = StatusOK /\ users' = {}
          /\ (/\ Stored(r)
              /\ fileserverHits = 0
              /\ \A q \in Reqs : ~Leaves(q, "middlewareMetricsInc"))
             => fileserverHits' = 0]_vars

\* C9 witness: a reset answered 500 after a static request had been counted: the
\* counter is zero and a user is still there.
C9_Witness ==
    \E r \in Reqs :
       /\ Handler(r) = "resetHandler" /\ pc[r] = "done"
       /\ resp[r].status = StatusInternalServerError
       /\ Passed # {}
       /\ fileserverHits = 0
       /\ users # {}

\* C10: the counter is never negative, and no step but a reset's store lowers it.
C10_NonNegativeMonotonic ==
    [][/\ fileserverHits' >= 0
       /\ (\A r \in Reqs : ~(Leaves(r, "resetHandler") /\ pc'[r] = "resetExec"))
             => fileserverHits' >= fileserverHits]_vars

====
